---- MODULE Spec2Model ----
(***************************************************************************)
(* A state-machine model of src/main.py: the interactive ArgoCD menu.      *)
(* main() logs in once, then loops: render the menu for the session state, *)
(* read a choice, dispatch to a handler.  Handlers shell out to `argocd`   *)
(* and `kubectl`; what those tools answer is an input of the model.        *)
(***************************************************************************)
EXTENDS Integers, Sequences, FiniteSets, TLC

VARIABLES
    pc,                 \* where main() is: "startup", "menu", "choose", a handler, "exited"
    logged_in,          \* main.logged_in
    rendered,           \* has the main menu been printed at least once
    current_menu_text,  \* main.current_menu_text: label -> handler
    sorted_menu_items,  \* main.sorted_menu_items
    exit_option_number, \* main.exit_option_number
    valid_choices,      \* main.valid_choices
    choice,             \* main.choice, "" before the first prompt
    exit_status,        \* process exit status, -1 while running
    exit_via,           \* how the process ended
    calls,              \* subprocess.run invocations of the operation in progress
    log,                \* logger entries of the operation in progress
    console,            \* console messages of the operation in progress
    prompts,            \* Prompt.ask / Confirm.ask issued by the operation in progress
    confirms,           \* answers to Confirm.ask in the operation in progress
    env_read,           \* os.getenv results of the operation in progress
    attempts,           \* prompt_and_login calls in the retry loop in progress
    app_names,          \* create_application_batch.app_names
    environment,        \* create_application_batch.environment
    base_command,       \* create_application_batch.base_command
    idx,                \* position of the for loop in app_names (1-based, next item)
    successful_apps,    \* create_application_batch.successful_apps
    failed_apps,        \* create_application_batch.failed_apps
    table               \* rows of the rich Table printed by the operation in progress

vars == <<pc, logged_in, rendered, current_menu_text, sorted_menu_items,
          exit_option_number, valid_choices, choice, exit_status, exit_via,
          calls, log, console, prompts, confirms, env_read, attempts, app_names,
          environment,
          base_command, idx, successful_apps, failed_apps, table>>

menuVars == <<current_menu_text, sorted_menu_items, exit_option_number, valid_choices>>
batchVars == <<app_names, environment, base_command, idx, successful_apps,
               failed_apps>>

-----------------------------------------------------------------------------
(* Bounds of the model *)

\* login attempts allowed inside one run of the retry loop
MaxAttempts == 2
\* length of the comma-separated answer to "Enter application names"
MaxStrLen == 5

-----------------------------------------------------------------------------
(* The outcomes of subprocess.run(..., check=True) *)

\* returned normally / raised CalledProcessError / raised FileNotFoundError
RunOutcomes == {"ok", "nonzero", "notfound"}

\* captured stderr of a failing tool, as characters (e.stderr)
StdErrs == {<<"e">>, <<" ", "f", "\n">>}

\* the value of os.getenv for an unset variable
None == "<None>"

-----------------------------------------------------------------------------
(* Strings: Python compares str by code point, so a label is ordered by its *)
(* sequence of code points.                                                 *)

Codes(s) ==
    CASE s = "Add Credential Template" -> <<65,100,100,32,67,114,101,100,101,110,116,105,97,108,32,84,101,109,112,108,97,116,101>>
      [] s = "Add Repository" -> <<65,100,100,32,82,101,112,111,115,105,116,111,114,121>>
      [] s = "Create Application" -> <<67,114,101,97,116,101,32,65,112,112,108,105,99,97,116,105,111,110>>
      [] s = "Create Application Batch" -> <<67,114,101,97,116,101,32,65,112,112,108,105,99,97,116,105,111,110,32,66,97,116,99,104>>
      [] s = "Delete Application" -> <<68,101,108,101,116,101,32,65,112,112,108,105,99,97,116,105,111,110>>
      [] s = "List Applications" -> <<76,105,115,116,32,65,112,112,108,105,99,97,116,105,111,110,115>>
      [] s = "List Repositories" -> <<76,105,115,116,32,82,101,112,111,115,105,116,111,114,105,101,115>>
      [] s = "Check ArgoCD Installation Status" -> <<67,104,101,99,107,32,65,114,103,111,67,68,32,73,110,115,116,97,108,108,97,116,105,111,110,32,83,116,97,116,117,115>>
      [] s = "Install ArgoCD" -> <<73,110,115,116,97,108,108,32,65,114,103,111,67,68>>
      [] s = "Uninstall ArgoCD" -> <<85,110,105,110,115,116,97,108,108,32,65,114,103,111,67,68>>
      [] s = "Login to ArgoCD" -> <<76,111,103,105,110,32,116,111,32,65,114,103,111,67,68>>

\* a < b on sequences of code points, as Python's str.__lt__
RECURSIVE CodesLess(_, _)
CodesLess(a, b) ==
    IF b = <<>> THEN FALSE
    ELSE IF a = <<>> THEN TRUE
    ELSE IF Head(a) # Head(b) THEN Head(a) < Head(b)
    ELSE CodesLess(Tail(a), Tail(b))

\* variant: sorted(..., reverse=True)
StrLessReversed(s, t) == CodesLess(Codes(t), Codes(s))

StrLess(s, t) == CodesLess(Codes(s), Codes(t))

\* sorted(keys): the keys of a dict are distinct, so the order is total
RECURSIVE sorted(_)
sorted(S) ==
    IF S = {} THEN <<>>
    ELSE LET m == CHOOSE x \in S : \A y \in S \ {x} : StrLess(x, y)
         IN  <<m>> \o sorted(S \ {m})

\* str(i) for the ordinals the menu can show
Digits == <<"1", "2", "3", "4", "5", "6", "7", "8", "9", "10", "11", "12">>
str(i) == Digits[i]
\* int(s) for a string str produced
int(s) == CHOOSE i \in 1..Len(Digits) : Digits[i] = s

\* seq[-1] and the set of the elements of seq
Last(seq) == seq[Len(seq)]
Range(seq) == {seq[i] : i \in 1..Len(seq)}

\* seq[i] with Python's 0-based index
At0(seq, i) == seq[i + 1]

\* str.strip() on a sequence of characters
Whitespace == {" ", "\n", "\t"}
RECURSIVE lstrip(_)
lstrip(cs) ==
    IF cs # <<>> /\ Head(cs) \in Whitespace THEN lstrip(Tail(cs)) ELSE cs
RECURSIVE rstrip(_)
rstrip(cs) ==
    IF cs # <<>> /\ cs[Len(cs)] \in Whitespace
    THEN rstrip(SubSeq(cs, 1, Len(cs) - 1)) ELSE cs
strip(cs) == rstrip(lstrip(cs))

\* the str made of a sequence of characters
RECURSIVE Join(_)
Join(cs) == IF cs = <<>> THEN "" ELSE Head(cs) \o Join(Tail(cs))

\* str.split(',') on a sequence of characters: the pieces between commas
RECURSIVE split(_, _)
split(cs, cur) ==
    IF cs = <<>> THEN <<cur>>
    ELSE IF Head(cs) = "," THEN <<cur>> \o split(Tail(cs), <<>>)
    ELSE split(Tail(cs), Append(cur, Head(cs)))

\* [f(x) for x in seq if x passes]
RECURSIVE stripped_nonempty(_)
stripped_nonempty(pieces) ==
    IF pieces = <<>> THEN <<>>
    ELSE IF strip(Head(pieces)) # <<>>
         THEN <<Join(strip(Head(pieces)))>> \o stripped_nonempty(Tail(pieces))
         ELSE stripped_nonempty(Tail(pieces))

\* app_names = [name.strip() for name in app_names_str.split(',') if name.strip()]
parse_app_names(app_names_str) == stripped_nonempty(split(app_names_str, <<>>))

-----------------------------------------------------------------------------
(* The action registry of main() *)

management_options ==
    ("Add Credential Template" :> "add_credential_template") @@
    ("Add Repository" :> "add_repository") @@
    ("Create Application" :> "create_application") @@
    ("Create Application Batch" :> "create_application_batch") @@
    ("Delete Application" :> "delete_application") @@
    ("List Applications" :> "list_applications") @@
    ("List Repositories" :> "list_repositories")

setup_options ==
    ("Check ArgoCD Installation Status" :> "check_installation_status") @@
    ("Install ArgoCD" :> "install_argocd") @@
    ("Uninstall ArgoCD" :> "delete_argocd_installation")

\* variant: the management entries merged in whatever the session state
menu_for_unguarded(li) ==
    IF li THEN management_options @@ setup_options
    ELSE ("Login to ArgoCD" :> "login_retry") @@ management_options @@ setup_options

\* {**setup_options}, then update(management_options) or the retry entry
menu_for(li) ==
    IF li THEN management_options @@ setup_options
    ELSE ("Login to ArgoCD" :> "login_retry") @@ setup_options

\* variant: the exit ordinal taken as the number of actions
exit_number_is_len(items) == Len(items)

\* line 525
exit_number(items) == Len(items) + 1

choices_upto(n) == {str(i) : i \in 1..n}

\* sorted(current_menu_text.keys()) for either session state (line 520)
SortedMenus == [li \in BOOLEAN |-> sorted(DOMAIN menu_for(li))]

-----------------------------------------------------------------------------
(* Traces of the operation in progress *)

Call(cmd, outcome) == [cmd |-> cmd, outcome |-> outcome]
\* an invocation that raised CalledProcessError, with its e.stderr
FailedCall(cmd, stderr) == [cmd |-> cmd, outcome |-> "nonzero", stderr |-> stderr]
Info(msg) == [level |-> "info", msg |-> msg, text |-> ""]
Error(msg, text) == [level |-> "error", msg |-> msg, text |-> text]

\* an answer to a Confirm.ask
Answer(question, yes) == [q |-> question, a |-> yes]

Trace(c, l, o, p) ==
    /\ calls' = calls \o c
    /\ log' = log \o l
    /\ console' = console \o o
    /\ prompts' = prompts \o p

\* the Confirm.ask answers a step adds
Confirmed(a) == confirms' = confirms \o a

\* variant: `logged_in = selected_action()`, which stores the handler's None
ReturnToMenuAssigning ==
    /\ pc' = "menu"
    /\ logged_in' = FALSE
    /\ UNCHANGED <<exit_status, exit_via>>

\* the handler returns to `while True` of main(); its value is discarded (line 554)
ReturnToMenu ==
    /\ pc' = "menu"
    /\ UNCHANGED <<logged_in, exit_status, exit_via>>

\* sys.exit(code)
SysExit(code, via) ==
    /\ pc' = "exited"
    /\ exit_status' = code
    /\ exit_via' = via
    /\ UNCHANGED logged_in

\* what `except Exception` of main() adds for a fault that unwinds to it
FaultLog(what) == <<Error("An unexpected error occurred in the main loop", what)>>
FaultConsole == <<"An unexpected error occurred">>

-----------------------------------------------------------------------------
(* login_to_argocd and prompt_and_login *)

\* values of the variables of .env / the environment
EnvValues == {None, "", "env"}
InsecureValues == {None, "", "true", "True", "1", "YES", "no"}
\* what the user types at a prompt
Answers == {"", "typed"}

\* Prompt.ask(..., default=d): an empty answer gives the default
ask(answer, default) == IF answer = "" THEN default ELSE answer

\* os.getenv(k) or <prompt>: None and "" are falsy
is_falsy(v) == v = None \/ v = ""
\* variant: `<prompt> or os.getenv(k)`, the operands swapped
env_or_prompt_first(v, prompted) == IF prompted # "" THEN prompted ELSE v

env_or(v, prompted) == IF is_falsy(v) THEN prompted ELSE v

\* str.lower() on the values the flag takes
lower(s) ==
    CASE s = "True" -> "true"
      [] s = "YES" -> "yes"
      [] OTHER -> s

\* os.getenv("ARGO_INSECURE_SKIP_VERIFY", "false").lower() in ("true", "1", "yes")
insecure_of(v) == lower(IF v = None THEN "false" ELSE v) \in {"true", "1", "yes"}

server_address_of(host, port) == host \o ":" \o port

login_command(host, port, username, password, insecure) ==
    <<"argocd", "login", server_address_of(host, port),
      "--username", username, "--password", password>>
    \o (IF insecure THEN <<"--insecure">> ELSE <<>>)

\* variant: a login function that reports success whatever the tool answered
login_returns_always(outcome) == TRUE

\* the value a login function returns for an outcome of `argocd login`
login_returns(outcome) == outcome = "ok"

\* variant: a missing `argocd` treated as an ordinary failed login
login_fatal_never(outcome) == FALSE

\* lines 55-58: login_to_argocd ends the process when `argocd` is missing
login_fatal(outcome) == outcome = "notfound"

\* the five os.getenv calls of login_to_argocd, in order (lines 27-35)
getenv_reads(e_host, e_port, e_user, e_pass, e_insec) ==
    <<[var |-> "ARGO_HOST", value |-> e_host],
      [var |-> "ARGO_PORT", value |-> e_port],
      [var |-> "ARGO_USERNAME", value |-> e_user],
      [var |-> "ARGO_PASSWORD", value |-> e_pass],
      [var |-> "ARGO_INSECURE_SKIP_VERIFY", value |-> e_insec]>>

\* the prompts login_to_argocd issues for the four fields it may ask for
startup_prompts(e_host, e_port, e_user, e_pass) ==
    (IF is_falsy(e_host) THEN <<"Enter ArgoCD host">> ELSE <<>>) \o
    (IF is_falsy(e_port) THEN <<"Enter ArgoCD port">> ELSE <<>>) \o
    (IF is_falsy(e_user) THEN <<"Enter ArgoCD username">> ELSE <<>>) \o
    (IF is_falsy(e_pass) THEN <<"Enter ArgoCD password">> ELSE <<>>)

login_to_argocd(e_host, e_port, e_user, e_pass, e_insec, a_host, a_port, a_user, a_pass, outcome, stderr) ==
    LET command == login_command(env_or(e_host, ask(a_host, "localhost")),
                                 env_or(e_port, ask(a_port, "8080")),
                                 env_or(e_user, a_user),
                                 env_or(e_pass, a_pass),
                                 insecure_of(e_insec))
        asked == startup_prompts(e_host, e_port, e_user, e_pass)
    IN
    /\ env_read' = getenv_reads(e_host, e_port, e_user, e_pass, e_insec)
    /\ CASE ~login_fatal(outcome) /\ outcome = "ok" ->
              /\ Trace(<<Call(command, outcome)>>, <<Info("Successfully logged in")>>,
                       <<"Attempting to log in", "Authentication successful.">>, asked)
              /\ logged_in' = login_returns(outcome)
              /\ pc' = "menu"
              /\ UNCHANGED <<exit_status, exit_via>>
         [] login_fatal(outcome) ->
              /\ Trace(<<Call(command, outcome)>>,
                       <<Error("The 'argocd' command was not found.", "")>>,
                       <<"Attempting to log in", "Error: The 'argocd' CLI is not installed">>,
                       asked)
              /\ SysExit(1, "sys.exit")
         [] ~login_fatal(outcome) /\ outcome # "ok" ->
              /\ Trace(<<Call(command, outcome)>>, <<Error("Failed to log in.", stderr)>>,
                       <<"Attempting to log in", "Error: Authentication failed.", stderr>>,
                       asked)
              /\ logged_in' = login_returns(outcome)
              /\ pc' = "menu"
              /\ UNCHANGED <<exit_status, exit_via>>
    /\ UNCHANGED <<rendered, confirms, menuVars, choice, attempts, batchVars, table>>

Startup ==
    /\ pc = "startup"
    /\ \E e_host, e_port, e_user, e_pass \in EnvValues, e_insec \in InsecureValues,
       a_host, a_port, a_user, a_pass \in Answers,
       outcome \in RunOutcomes, stderr \in StdErrs :
        login_to_argocd(e_host, e_port, e_user, e_pass, e_insec,
                        a_host, a_port, a_user, a_pass, outcome, Join(stderr))

\* the five prompts of prompt_and_login, always issued
retry_prompts ==
    <<"Enter ArgoCD host", "Enter ArgoCD port", "Enter ArgoCD username",
      "Enter ArgoCD password", "Skip TLS certificate verification (insecure)?">>

\* logged_in after one pass of the retry loop (lines 546-549)
retry_logged_in(success, li) == IF success THEN TRUE ELSE li

\* variant: the loop left on success only, the try-again answer ignored
retry_breaks_on_success(success, again) == success

\* does the retry loop break after this pass (lines 547-552)
retry_breaks(success, again) == success \/ ~again

\* one pass of the `while True` of the retry loop: prompt_and_login, then the
\* try-again confirmation when it returned False
LoginRetry ==
    /\ pc = "login_retry"
    /\ \E a_host, a_port, a_user, a_pass \in Answers, insecure, again \in BOOLEAN,
       outcome \in RunOutcomes, stderr \in StdErrs :
        LET command == login_command(ask(a_host, "localhost"), ask(a_port, "8080"),
                                     a_user, a_pass, insecure)
            success == login_returns(outcome)
        IN
        /\ again => attempts + 1 < MaxAttempts
        /\ attempts' = attempts + 1
        /\ CASE outcome = "ok" ->
                  /\ Trace(<<Call(command, outcome)>>, <<Info("Successfully logged in")>>,
                           <<"Enter ArgoCD Credentials", "Attempting to log in",
                             "Authentication successful.">>, retry_prompts)
                  /\ Confirmed(<<Answer(Last(retry_prompts), insecure)>>)
                  /\ logged_in' = retry_logged_in(success, logged_in)
                  /\ pc' = IF retry_breaks(success, again) THEN "menu" ELSE "login_retry"
                  /\ UNCHANGED <<exit_status, exit_via>>
             [] outcome = "nonzero" ->
                  /\ Trace(<<Call(command, outcome)>>,
                           <<Error("Failed to log in.", Join(stderr))>>,
                           <<"Enter ArgoCD Credentials", "Attempting to log in",
                             "Error: Authentication failed.", Join(stderr)>>,
                           retry_prompts \o
                           (IF success THEN <<>> ELSE <<"Login failed. Try again?">>))
                  /\ Confirmed(<<Answer(Last(retry_prompts), insecure)>> \o
                               (IF success THEN <<>>
                                ELSE <<Answer("Login failed. Try again?", again)>>))
                  /\ logged_in' = retry_logged_in(success, logged_in)
                  /\ pc' = IF retry_breaks(success, again) THEN "menu" ELSE "login_retry"
                  /\ UNCHANGED <<exit_status, exit_via>>
             [] outcome = "notfound" ->
                  \* FileNotFoundError is not caught by prompt_and_login
                  /\ Trace(<<Call(command, outcome)>>, FaultLog("FileNotFoundError"),
                           <<"Enter ArgoCD Credentials", "Attempting to log in">>
                           \o FaultConsole, retry_prompts)
                  /\ Confirmed(<<Answer(Last(retry_prompts), insecure)>>)
                  /\ SysExit(1, "unexpected_fault")
        /\ UNCHANGED <<rendered, env_read, menuVars, choice, batchVars, table>>

-----------------------------------------------------------------------------
(* The menu loop of main() *)

\* the numbered lines printed for the menu, "Exit" last
RECURSIVE menu_lines(_, _)
menu_lines(items, i) ==
    IF i > Len(items) THEN <<>>
    ELSE <<str(i) \o ": " \o items[i]>> \o menu_lines(items, i + 1)

\* lines 512-528: build and print the menu of this iteration
RenderMenu ==
    LET menu == menu_for(logged_in)
        items == SortedMenus[logged_in]
        n == exit_number(items)
    IN
    /\ pc = "menu"
    /\ current_menu_text' = menu
    /\ sorted_menu_items' = items
    /\ exit_option_number' = n
    /\ valid_choices' = choices_upto(n)
    /\ console' = <<"Main Menu">> \o menu_lines(items, 1) \o <<str(n) \o ": Exit">>
    /\ calls' = <<>>
    /\ log' = <<>>
    /\ prompts' = <<>>
    /\ confirms' = <<>>
    /\ env_read' = <<>>
    /\ table' = <<>>
    /\ rendered' = TRUE
    /\ pc' = "choose"
    /\ app_names' = <<>>
    /\ environment' = ""
    /\ base_command' = <<>>
    /\ idx' = 0
    /\ successful_apps' = <<>>
    /\ failed_apps' = <<>>
    /\ UNCHANGED <<logged_in, choice, exit_status, exit_via, attempts>>

\* variant: the choice compared with the last action's ordinal
is_exit_off_by_one(c, n) == c = str(n - 1)

\* line 536: is the choice the exit ordinal
is_exit(c, n) == c = str(n)

\* lines 530-554: read the choice, leave the loop or dispatch
Choose ==
    /\ pc = "choose"
    /\ \E c \in valid_choices :
        /\ choice' = c
        /\ IF is_exit(c, exit_option_number)
           THEN /\ Trace(<<>>, <<>>, <<"Exiting.">>, <<"Choose an action">>)
                /\ pc' = "exited"
                /\ exit_status' = 0
                /\ exit_via' = "break"
           ELSE IF int(c) - 1 < Len(sorted_menu_items)
           THEN /\ Trace(<<>>, <<>>, <<>>, <<"Choose an action">>)
                /\ pc' = current_menu_text[At0(sorted_menu_items, int(c) - 1)]
                /\ UNCHANGED <<exit_status, exit_via>>
           ELSE \* IndexError unwinds to `except Exception`
                /\ Trace(<<>>, FaultLog("IndexError"), FaultConsole, <<"Choose an action">>)
                /\ pc' = "exited"
                /\ exit_status' = 1
                /\ exit_via' = "unexpected_fault"
        /\ attempts' = 0
        /\ UNCHANGED <<logged_in, rendered, env_read, confirms, menuVars, batchVars, table>>

\* KeyboardInterrupt: caught by main() only inside its try (lines 510, 556-558)
Interrupt ==
    /\ pc # "exited"
    /\ IF pc = "startup"
       THEN /\ exit_status' = 130
            /\ exit_via' = "uncaught_interrupt"
            /\ UNCHANGED console
       ELSE /\ exit_status' = 0
            /\ exit_via' = "interrupt"
            /\ console' = Append(console, "Interrupted by user. Exiting gracefully.")
    /\ pc' = "exited"
    /\ UNCHANGED <<logged_in, rendered, env_read, confirms, menuVars, choice, calls, log, prompts,
                   attempts, batchVars, table>>

-----------------------------------------------------------------------------
(* Setup handlers: kubectl *)

KubectlNotFoundLog == <<Error("The 'kubectl' command was not found.", "")>>
KubectlNotFoundConsole == <<"Error: The 'kubectl' CLI is not installed">>
ManifestUrl == "https://raw.githubusercontent.com/argoproj/argo-cd/stable/manifests/install.yaml"

\* stderr of `kubectl create namespace`, as words
NsStdErrs == {<<"namespaces", "already", "exists">>, <<"forbidden">>,
              <<"exists", "already">>}

\* `needle in haystack` on sequences of words
contains(haystack, needle) ==
    \E i \in 0..(Len(haystack) - Len(needle)) :
        SubSeq(haystack, i + 1, i + Len(needle)) = needle

RECURSIVE JoinWords(_)
JoinWords(ws) ==
    IF ws = <<>> THEN ""
    ELSE IF Len(ws) = 1 THEN Head(ws)
    ELSE Head(ws) \o " " \o JoinWords(Tail(ws))

\* variant: every exit of `kubectl create namespace` taken as good enough
namespace_ready_any(outcome, stderr) == outcome \in {"ok", "nonzero"}

\* lines 113-118: may the installation go on after `kubectl create namespace`
namespace_ready(outcome, stderr) ==
    outcome = "ok" \/ (outcome = "nonzero" /\ contains(stderr, <<"already", "exists">>))

install_argocd ==
    /\ pc = "install_argocd"
    /\ \E a_ns \in Answers, ns_outcome, apply_outcome \in RunOutcomes, ns_stderr \in NsStdErrs :
        LET namespace == ask(a_ns, "argocd")
            create_ns_command == <<"kubectl", "create", "namespace", namespace>>
            install_command == <<"kubectl", "apply", "-n", namespace, "-f", ManifestUrl>>
            asked == <<"Enter the namespace for ArgoCD installation">>
            head == <<"Install ArgoCD into a Kubernetes Cluster", "Attempting to create namespace">>
            ns_line == IF ns_outcome = "ok" THEN "Namespace created."
                       ELSE "Namespace already exists. Continuing."
            \* capture_output=True: a non-zero result carries result.stderr
            ns_call == IF ns_outcome = "nonzero" THEN FailedCall(create_ns_command, ns_stderr)
                       ELSE Call(create_ns_command, ns_outcome)
        IN
        /\ IF ns_outcome = "notfound"
           THEN Trace(<<ns_call>>, KubectlNotFoundLog,
                      head \o KubectlNotFoundConsole, asked)
           ELSE IF ~namespace_ready(ns_outcome, ns_stderr)
           THEN Trace(<<ns_call>>,
                      <<Error("An error occurred during installation.", JoinWords(ns_stderr))>>,
                      head \o <<"An error occurred during the installation process.",
                                JoinWords(ns_stderr)>>, asked)
           ELSE CASE apply_outcome = "ok" ->
                     Trace(<<ns_call,
                             Call(install_command, apply_outcome)>>,
                           <<Info("Successfully applied ArgoCD manifests")>>,
                           head \o <<ns_line, "Applying ArgoCD installation manifest...",
                                     "ArgoCD installation manifest applied successfully">>,
                           asked)
                  [] apply_outcome = "notfound" ->
                     Trace(<<ns_call,
                             Call(install_command, apply_outcome)>>,
                           KubectlNotFoundLog,
                           head \o <<ns_line, "Applying ArgoCD installation manifest...">>
                                \o KubectlNotFoundConsole, asked)
                  [] apply_outcome = "nonzero" ->
                     \* stderr is not captured by this call: e.stderr is None
                     Trace(<<ns_call,
                             Call(install_command, apply_outcome)>>,
                           <<Error("An error occurred during installation.", None)>>,
                           head \o <<ns_line, "Applying ArgoCD installation manifest...",
                                     "An error occurred during the installation process.",
                                     None>>, asked)
        /\ ReturnToMenu
        /\ UNCHANGED <<rendered, env_read, confirms, menuVars, choice, attempts, batchVars, table>>

check_installation_status ==
    /\ pc = "check_installation_status"
    /\ \E a_ns \in Answers, outcome \in RunOutcomes :
        LET namespace == ask(a_ns, "argocd")
            command == <<"kubectl", "get", "pods", "-n", namespace>>
            asked == <<"Enter the namespace where ArgoCD is installed">>
            head == <<"Check ArgoCD Installation Status", "Fetching pod status">>
        IN
        /\ CASE outcome = "ok" ->
                  Trace(<<Call(command, outcome)>>, <<>>, head, asked)
             [] outcome = "notfound" ->
                  Trace(<<Call(command, outcome)>>, KubectlNotFoundLog,
                        head \o KubectlNotFoundConsole, asked)
             [] outcome = "nonzero" ->
                  Trace(<<Call(command, outcome)>>,
                        <<Error("Failed to get pod status.", None)>>,
                        head \o <<"An error occurred while fetching pod status.", None>>,
                        asked)
        /\ ReturnToMenu
        /\ UNCHANGED <<rendered, env_read, confirms, menuVars, choice, attempts, batchVars, table>>

\* variant: the `return` missing after "Uninstallation cancelled."
proceeds_always(answer) == TRUE

\* lines 166-168: does the uninstallation go on after the first confirmation
proceeds(answer) == answer

delete_argocd_installation ==
    /\ pc = "delete_argocd_installation"
    /\ \E a_ns \in Answers, proceed, also_ns \in BOOLEAN,
       delete_outcome, ns_outcome \in RunOutcomes :
        LET namespace == ask(a_ns, "argocd")
            delete_command == <<"kubectl", "delete", "-n", namespace, "-f", ManifestUrl>>
            delete_ns_command == <<"kubectl", "delete", "namespace", namespace>>
            ask1 == <<"Enter the namespace where ArgoCD is installed",
                      "Are you sure you want to proceed with uninstalling ArgoCD?">>
            ask2 == ask1 \o <<"Do you also want to delete the entire namespace?">>
            head == <<"Uninstall ArgoCD from a Kubernetes Cluster", "Warning">>
            head2 == head \o <<"Deleting ArgoCD resources">>
            head3 == head2 \o <<"ArgoCD resources have been deleted.">>
            deleted == <<Info("Successfully deleted ArgoCD resources")>>
        IN
        /\ Confirmed(<<Answer(Last(ask1), proceed)>> \o
                     (IF proceeds(proceed) /\ delete_outcome = "ok"
                      THEN <<Answer(Last(ask2), also_ns)>> ELSE <<>>))
        /\ IF ~proceeds(proceed)
           THEN Trace(<<>>, <<>>, head \o <<"Uninstallation cancelled.">>, ask1)
           ELSE CASE delete_outcome = "notfound" ->
                     Trace(<<Call(delete_command, delete_outcome)>>, KubectlNotFoundLog,
                           head2 \o KubectlNotFoundConsole, ask1)
                  [] delete_outcome = "nonzero" ->
                     Trace(<<Call(delete_command, delete_outcome)>>,
                           <<Error("An error occurred during uninstallation.", None)>>,
                           head2 \o <<"An error occurred during the uninstallation process.",
                                      None>>, ask1)
                  [] delete_outcome = "ok" /\ ~also_ns ->
                     Trace(<<Call(delete_command, delete_outcome)>>, deleted, head3, ask2)
                  [] delete_outcome = "ok" /\ also_ns /\ ns_outcome = "ok" ->
                     Trace(<<Call(delete_command, delete_outcome),
                             Call(delete_ns_command, ns_outcome)>>,
                           deleted \o <<Info("Successfully deleted namespace")>>,
                           head3 \o <<"Deleting namespace", "Namespace has been deleted.">>,
                           ask2)
                  [] delete_outcome = "ok" /\ also_ns /\ ns_outcome = "notfound" ->
                     Trace(<<Call(delete_command, delete_outcome),
                             Call(delete_ns_command, ns_outcome)>>,
                           deleted \o KubectlNotFoundLog,
                           head3 \o <<"Deleting namespace">> \o KubectlNotFoundConsole, ask2)
                  [] delete_outcome = "ok" /\ also_ns /\ ns_outcome = "nonzero" ->
                     Trace(<<Call(delete_command, delete_outcome),
                             Call(delete_ns_command, ns_outcome)>>,
                           deleted \o <<Error("An error occurred during uninstallation.", None)>>,
                           head3 \o <<"Deleting namespace",
                                      "An error occurred during the uninstallation process.",
                                      None>>, ask2)
        /\ ReturnToMenu
        /\ UNCHANGED <<rendered, env_read, menuVars, choice, attempts, batchVars, table>>

-----------------------------------------------------------------------------
(* Management handlers: argocd.  None of them catches FileNotFoundError, so *)
(* a missing `argocd` unwinds to `except Exception` of main().              *)

Unwind(c, o, p, what) ==
    /\ Trace(c, FaultLog(what), o \o FaultConsole, p)
    /\ SysExit(1, "unexpected_fault")

\* variant: no `except subprocess.CalledProcessError`, so a non-zero exit unwinds
RunArgocdUncaught(command, outcome, stderr, head, asked, ok_msg, fail_msg) ==
    CASE outcome = "ok" ->
           /\ Trace(<<Call(command, outcome)>>, <<Info(ok_msg)>>, head \o <<ok_msg>>, asked)
           /\ ReturnToMenu
      [] OTHER ->
           Unwind(<<Call(command, outcome)>>, head, asked, "CalledProcessError")

\* try: run, info, message / except CalledProcessError: error, messages
RunArgocd(command, outcome, stderr, head, asked, ok_msg, fail_msg) ==
    CASE outcome = "ok" ->
           /\ Trace(<<Call(command, outcome)>>, <<Info(ok_msg)>>, head \o <<ok_msg>>, asked)
           /\ ReturnToMenu
      [] outcome = "nonzero" ->
           /\ Trace(<<Call(command, outcome)>>, <<Error(fail_msg, stderr)>>,
                    head \o <<"Error: " \o fail_msg, stderr>>, asked)
           /\ ReturnToMenu
      [] outcome = "notfound" ->
           Unwind(<<Call(command, outcome)>>, head, asked, "FileNotFoundError")

add_credential_template ==
    /\ pc = "add_credential_template"
    /\ \E url_prefix \in Answers, outcome \in RunOutcomes, stderr \in StdErrs :
        /\ RunArgocd(<<"argocd", "repocreds", "add", url_prefix,
                       "--username", "user", "--password", "secret">>,
                     outcome, Join(stderr),
                     <<"Add Repository Credential Template", "Adding credentials">>,
                     <<"Enter Repository URL Prefix", "Enter repository username",
                       "Enter repository password or PAT">>,
                     "Successfully added credential template",
                     "Failed to add credential template.")
        /\ UNCHANGED <<rendered, env_read, confirms, menuVars, choice, attempts, batchVars, table>>

add_repository ==
    /\ pc = "add_repository"
    /\ \E repo_url \in Answers, outcome \in RunOutcomes, stderr \in StdErrs :
        /\ RunArgocd(<<"argocd", "repo", "add", repo_url>>, outcome, Join(stderr),
                     <<"Add a new Repository to ArgoCD", "Registering repository...">>,
                     <<"Enter the full Repository URL">>,
                     "Successfully added repository",
                     "Failed to add repository.")
        /\ UNCHANGED <<rendered, env_read, confirms, menuVars, choice, attempts, batchVars, table>>

YesNo == {"y", "n"}

\* the sync flags built from the three y/n answers (lines 306-316, 425-436)
sync_flags(enable_auto_sync, enable_prune, enable_self_heal) ==
    IF enable_auto_sync = "y"
    THEN <<"--sync-policy", "automated">>
         \o (IF enable_prune = "y" THEN <<"--auto-prune">> ELSE <<>>)
         \o (IF enable_self_heal = "y" THEN <<"--self-heal">> ELSE <<>>)
    ELSE <<>>

sync_prompts(enable_auto_sync) ==
    <<"Enable automated sync?">> \o
    (IF enable_auto_sync = "y" THEN <<"Enable auto-pruning?", "Enable self-healing?">>
     ELSE <<>>)

app_create_command(app_name, repo_url, revision, path, dest_server, dest_namespace, project) ==
    <<"argocd", "app", "create", app_name, "--repo", repo_url, "--revision", revision,
      "--path", path, "--dest-server", dest_server, "--dest-namespace", dest_namespace,
      "--project", project>>

SharedPrompts(second) ==
    <<"Repository URL", "Target branch/revision", second, "Destination cluster URL",
      "Destination namespace", "ArgoCD Project">>

create_application ==
    /\ pc = "create_application"
    /\ \E app_name, a_revision \in Answers, sync, prune, heal \in YesNo,
       outcome \in RunOutcomes, stderr \in StdErrs :
        /\ RunArgocd(app_create_command(app_name, "repo", ask(a_revision, "HEAD"), "path",
                                        ask("", "https://kubernetes.default.svc"), "ns",
                                        ask("", "default"))
                     \o sync_flags(sync, prune, heal),
                     outcome, Join(stderr),
                     <<"Create a new ArgoCD Application", "Creating application">>,
                     <<"Application Name", "Repository URL", "Target branch/revision",
                       "Path to manifests in repository", "Destination cluster URL",
                       "Destination namespace", "ArgoCD Project">> \o sync_prompts(sync),
                     "Successfully created application",
                     "Failed to create application.")
        /\ UNCHANGED <<rendered, env_read, confirms, menuVars, choice, attempts, batchVars, table>>

delete_application ==
    /\ pc = "delete_application"
    /\ \E app_name \in Answers, confirmed \in BOOLEAN, outcome \in RunOutcomes,
       stderr \in StdErrs :
        LET head == <<"Delete an ArgoCD Application">>
            ask1 == <<"Enter the name of the application to delete">>
            ask2 == ask1 \o <<"Are you sure you want to delete the application?">>
        IN
        /\ Confirmed(IF app_name = "" THEN <<>> ELSE <<Answer(Last(ask2), confirmed)>>)
        /\ IF app_name = ""
           THEN /\ Trace(<<>>, <<>>, head \o <<"No application name entered. Aborting.">>, ask1)
                /\ ReturnToMenu
           ELSE IF ~confirmed
           THEN /\ Trace(<<>>, <<>>, head \o <<"Deletion cancelled.">>, ask2)
                /\ ReturnToMenu
           ELSE RunArgocd(<<"argocd", "app", "delete", app_name, "--yes">>,
                          outcome, Join(stderr), head \o <<"Deleting application">>, ask2,
                          "Successfully deleted application",
                          "Failed to delete application.")
        /\ UNCHANGED <<rendered, env_read, menuVars, choice, attempts, batchVars, table>>

-----------------------------------------------------------------------------
(* List handlers: argocd ... -o json *)

\* dict.get(k, default)
get(d, k, default) == IF k \in DOMAIN d THEN d[k] ELSE default
\* {}
EmptyDict == [k \in {} |-> ""]

\* stdout of a list command: text that json.loads rejects, or a JSON array
Malformed == [json |-> FALSE, value |-> <<>>]
Array(records) == [json |-> TRUE, value |-> records]

RepoFull == [repo |-> "url", name |-> "n", status |-> "s",
             connectionState |-> [status |-> "Successful"], project |-> "p"]
RepoNoState == [repo |-> "url", name |-> "n"]
RepoEmptyState == [repo |-> "url", connectionState |-> EmptyDict]
RepoOutputs == {Malformed, Array(<<>>), Array(<<RepoFull>>), Array(<<RepoNoState>>),
                Array(<<RepoEmptyState>>), Array(<<RepoFull, RepoNoState>>)}

\* variant: a placeholder as the default of every .get
repo_row_placeholder(repo) ==
    <<get(repo, "repo", "N/A"), get(repo, "name", "N/A"), get(repo, "status", "N/A"),
      get(get(repo, "connectionState", EmptyDict), "status", "N/A"),
      get(repo, "project", "N/A")>>

\* lines 214-220
repo_row(repo) ==
    <<get(repo, "repo", ""), get(repo, "name", ""), get(repo, "status", ""),
      get(get(repo, "connectionState", EmptyDict), "status", ""),
      get(repo, "project", "")>>

AppFull == [metadata |-> [name |-> "app"],
            spec |-> [project |-> "p", destination |-> [server |-> "srv", namespace |-> "ns"]],
            status |-> [sync |-> [status |-> "Synced"], health |-> [status |-> "Healthy"]]]
AppNoStatus == [metadata |-> [name |-> "app"], spec |-> [project |-> "p"]]
AppPartial == [spec |-> [destination |-> [server |-> "srv"]],
               status |-> [sync |-> EmptyDict]]
AppOutputs == {Malformed, Array(<<>>), Array(<<AppFull>>), Array(<<AppNoStatus>>),
               Array(<<AppPartial>>), Array(<<AppFull, EmptyDict>>)}

\* lines 350-362
app_row(app) ==
    LET status == get(app, "status", EmptyDict)
        spec == get(app, "spec", EmptyDict)
        destination == get(spec, "destination", EmptyDict)
        metadata == get(app, "metadata", EmptyDict)
    IN <<get(metadata, "name", ""), get(spec, "project", ""),
         get(destination, "server", ""), get(destination, "namespace", ""),
         get(get(status, "sync", EmptyDict), "status", ""),
         get(get(status, "health", EmptyDict), "status", "")>>

\* a command that succeeded with capture_output=True, and its result.stdout
Output(cmd, stdout) == [cmd |-> cmd, outcome |-> "ok", stdout |-> stdout]

\* variant: no `if not repos: ... return` before the table is built
is_empty_never(value) == FALSE

\* lines 204, 340: `not repos`, `not apps` for a JSON array
is_empty(value) == value = <<>>

\* the shared body of list_repositories and list_applications
ListWith(command, outcome, stdout, stderr, head, none_msg, fail_msg, rows) ==
    CASE outcome = "ok" /\ ~stdout.json ->
           /\ Trace(<<Output(command, stdout)>>,
                    <<Error("Failed to parse JSON from argocd CLI output.", "")>>,
                    head \o <<"Error: Could not parse the data received from the ArgoCD CLI.">>,
                    <<>>)
           /\ table' = <<>>
           /\ ReturnToMenu
      [] outcome = "ok" /\ stdout.json /\ is_empty(stdout.value) ->
           /\ Trace(<<Output(command, stdout)>>, <<>>, head \o <<none_msg>>, <<>>)
           /\ table' = <<>>
           /\ ReturnToMenu
      [] outcome = "ok" /\ stdout.json /\ ~is_empty(stdout.value) ->
           /\ Trace(<<Output(command, stdout)>>, <<>>, head \o <<"<table>">>, <<>>)
           /\ table' = rows
           /\ ReturnToMenu
      [] outcome = "nonzero" ->
           /\ Trace(<<Call(command, outcome)>>, <<Error(fail_msg, stderr)>>,
                    head \o <<"Error: " \o fail_msg, stderr>>, <<>>)
           /\ table' = <<>>
           /\ ReturnToMenu
      [] outcome = "notfound" ->
           /\ Unwind(<<Call(command, outcome)>>, head, <<>>, "FileNotFoundError")
           /\ table' = <<>>

list_repositories ==
    /\ pc = "list_repositories"
    /\ \E outcome \in RunOutcomes, stdout \in RepoOutputs, stderr \in StdErrs :
        /\ ListWith(<<"argocd", "repo", "list", "-o", "json">>, outcome, stdout, Join(stderr),
                    <<"Fetching Repositories...">>, "No repositories found.",
                    "Failed to list repositories.",
                    [i \in 1..Len(stdout.value) |-> repo_row(stdout.value[i])])
        /\ UNCHANGED <<rendered, env_read, confirms, menuVars, choice, attempts, batchVars>>

list_applications ==
    /\ pc = "list_applications"
    /\ \E outcome \in RunOutcomes, stdout \in AppOutputs, stderr \in StdErrs :
        /\ ListWith(<<"argocd", "app", "list", "-o", "json">>, outcome, stdout, Join(stderr),
                    <<"Fetching Applications...">>, "No applications found.",
                    "Failed to list applications.",
                    [i \in 1..Len(stdout.value) |-> app_row(stdout.value[i])])
        /\ UNCHANGED <<rendered, env_read, confirms, menuVars, choice, attempts, batchVars>>

-----------------------------------------------------------------------------
(* create_application_batch *)

\* characters of the answer to "Enter application names (comma-separated)"
NameChars == {"a", "b", ",", " "}
NameStrings == UNION {[1..n -> NameChars] : n \in 0..MaxStrLen}
\* the lists app_names those answers give
ParsedNames == {parse_app_names(s) : s \in NameStrings}
Environments == {"dev", "prod"}

\* variant: the environment before the overlay directory
path_of_swapped(app_name, env) == app_name \o "/" \o env \o "/overlay"

\* line 443
path_of(app_name, env) == app_name \o "/overlay/" \o env

\* lines 410-441: the prompts, up to the start of the for loop
BatchStart ==
    /\ pc = "create_application_batch"
    /\ \E names \in ParsedNames, env \in Environments, sync, prune, heal \in YesNo :
        LET head == <<"Create a Batch of ArgoCD Applications">>
        IN
        /\ IF names = <<>>
           THEN /\ Trace(<<>>, <<>>, head \o <<"No application names entered. Aborting.">>,
                         <<"Enter application names">>)
                /\ ReturnToMenu
                /\ UNCHANGED batchVars
           ELSE /\ Trace(<<>>, <<>>,
                         head \o <<"Enter shared configuration for the batch:",
                                   "Starting batch creation...">>,
                         <<"Enter application names">> \o SharedPrompts("Environment")
                         \o sync_prompts(sync))
                /\ app_names' = names
                /\ environment' = env
                /\ base_command' = sync_flags(sync, prune, heal)
                /\ successful_apps' = <<>>
                /\ failed_apps' = <<>>
                /\ idx' = 1
                /\ pc' = "batch_loop"
                /\ UNCHANGED <<logged_in, exit_status, exit_via>>
        /\ UNCHANGED <<rendered, env_read, confirms, menuVars, choice, attempts, table>>

\* variant: the failure logged but not recorded in the list
failed_after_unrecorded(failed, app_name, error_message) == failed

\* line 462: failed_apps.append((app_name, error_message))
failed_after(failed, app_name, error_message) == Append(failed, <<app_name, error_message>>)

\* variant: the `break` missing after the abort message
goes_on_always(continue) == TRUE

\* line 466-468: does the for loop go on after a failed item
goes_on(continue) == continue

\* lines 442-468: one pass of the for loop
BatchItem ==
    /\ pc = "batch_loop"
    /\ \E outcome \in RunOutcomes, stderr \in StdErrs, continue \in BOOLEAN :
        LET app_name == app_names[idx]
            path == path_of(app_name, environment)
            command == app_create_command(app_name, "repo", "HEAD", path,
                                          "https://kubernetes.default.svc", "ns", "default")
                       \o base_command
            error_message == Join(strip(stderr))
            after == IF idx = Len(app_names) THEN "batch_summary" ELSE "batch_loop"
        IN
        /\ CASE outcome = "ok" ->
                  /\ Trace(<<Call(command, outcome)>>, <<>>, <<"Creating application">>, <<>>)
                  /\ successful_apps' = Append(successful_apps, app_name)
                  /\ idx' = idx + 1
                  /\ pc' = after
                  /\ UNCHANGED <<failed_apps, confirms, logged_in, exit_status, exit_via>>
             [] outcome = "nonzero" ->
                  /\ Trace(<<FailedCall(command, stderr)>>,
                           <<Error("Failed to create application", error_message)>>,
                           <<"Creating application", "  -> Error creating">>
                           \o (IF continue THEN <<>>
                               ELSE <<"Batch creation aborted by user.">>),
                           <<"An error occurred. Continue with the next application?">>)
                  /\ Confirmed(<<Answer("An error occurred. Continue with the next application?",
                                        continue)>>)
                  /\ failed_apps' = failed_after(failed_apps, app_name, error_message)
                  /\ idx' = idx + 1
                  /\ pc' = IF goes_on(continue) THEN after ELSE "batch_summary"
                  /\ UNCHANGED <<successful_apps, logged_in, exit_status, exit_via>>
             [] outcome = "notfound" ->
                  /\ Unwind(<<Call(command, outcome)>>, <<"Creating application">>, <<>>,
                            "FileNotFoundError")
                  /\ UNCHANGED <<successful_apps, failed_apps, idx, confirms>>
        /\ UNCHANGED <<rendered, env_read, menuVars, choice, attempts, table,
                       app_names, environment, base_command>>

\* variant: rows added in the loop's order of the failures first
summary_rows_failed_first(succeeded, failed) ==
    [i \in 1..Len(failed) |-> <<failed[i][1], "Failed", failed[i][2]>>]
    \o [i \in 1..Len(succeeded) |-> <<succeeded[i], "Success", "Application created.">>]

\* lines 476-480: the rows added to summary_table
summary_rows(succeeded, failed) ==
    [i \in 1..Len(succeeded) |-> <<succeeded[i], "Success", "Application created.">>]
    \o [i \in 1..Len(failed) |-> <<failed[i][1], "Failed", failed[i][2]>>]

\* lines 470-483
BatchSummary ==
    /\ pc = "batch_summary"
    /\ Trace(<<>>, <<>>, <<"Batch Creation Summary", "<table>", "Batch processing finished.">>,
             <<>>)
    /\ table' = summary_rows(successful_apps, failed_apps)
    /\ ReturnToMenu
    /\ UNCHANGED <<rendered, env_read, confirms, menuVars, choice, attempts, batchVars>>

-----------------------------------------------------------------------------
(* The program *)

Init ==
    /\ pc = "startup"
    /\ logged_in = FALSE
    /\ rendered = FALSE
    /\ current_menu_text = EmptyDict
    /\ sorted_menu_items = <<>>
    /\ exit_option_number = 0
    /\ valid_choices = {}
    /\ choice = ""
    /\ exit_status = -1
    /\ exit_via = "running"
    /\ calls = <<>>
    /\ log = <<>>
    /\ console = <<"Welcome to the ArgoCD Interactive CLI">>
    /\ prompts = <<>>
    /\ confirms = <<>>
    /\ env_read = <<>>
    /\ attempts = 0
    /\ app_names = <<>>
    /\ environment = ""
    /\ base_command = <<>>
    /\ idx = 0
    /\ successful_apps = <<>>
    /\ failed_apps = <<>>
    /\ table = <<>>

Next ==
    \/ Startup
    \/ RenderMenu
    \/ Choose
    \/ LoginRetry
    \/ Interrupt
    \/ install_argocd
    \/ check_installation_status
    \/ delete_argocd_installation
    \/ add_credential_template
    \/ add_repository
    \/ create_application
    \/ delete_application
    \/ list_repositories
    \/ list_applications
    \/ BatchStart
    \/ BatchItem
    \/ BatchSummary

Spec == Init /\ [][Next]_vars

-----------------------------------------------------------------------------
(* Properties *)

IsLogin(call) == SubSeq(call.cmd, 1, 2) = <<"argocd", "login">>
IsCreate(call) == SubSeq(call.cmd, 1, 3) = <<"argocd", "app", "create">>

SetupLabels == {"Check ArgoCD Installation Status", "Install ArgoCD", "Uninstall ArgoCD"}
ManagementLabels == {"Add Credential Template", "Add Repository", "Create Application",
                     "Create Application Batch", "Delete Application",
                     "List Applications", "List Repositories"}
RetryLabel == "Login to ArgoCD"
Offered == Range(sorted_menu_items)

\* C1: logged_in becomes true only in a step of a login operation (the startup
\* login or a pass of the retry loop) whose `argocd login` invocation succeeded;
\* no failed login, declined retry or other action sets it.
C1_LoginOnlyOnSuccess ==
    [][(logged_in' /\ ~logged_in) =>
         /\ pc \in {"startup", "login_retry"}
         /\ calls' # <<>>
         /\ IsLogin(Last(calls'))
         /\ Last(calls').outcome = "ok"]_vars

\* a retry that failed once and then succeeded
C1_Witness ==
    /\ logged_in /\ pc = "menu" /\ Len(calls) = 2
    /\ IsLogin(calls[1]) /\ calls[1].outcome = "nonzero"
    /\ IsLogin(calls[2]) /\ calls[2].outcome = "ok"

\* C2: whenever the menu has been rendered and awaits a choice, the offered
\* labels are the three setup labels plus only the retry label while
\* unauthenticated, and the setup labels plus the seven management labels,
\* without the retry label, while authenticated.
C2_MenuMatchesSession ==
    pc = "choose" =>
        /\ Offered = DOMAIN current_menu_text
        /\ Len(sorted_menu_items) = Cardinality(Offered)
        /\ IF logged_in
           THEN /\ Offered = SetupLabels \cup ManagementLabels
                /\ RetryLabel \notin Offered
           ELSE /\ Offered = SetupLabels \cup {RetryLabel}
                /\ Offered \cap ManagementLabels = {}
                /\ current_menu_text[RetryLabel] = "login_retry"

\* the unauthenticated menu rendered again after a declined retry
C2_Witness ==
    /\ pc = "choose" /\ ~logged_in /\ choice = "3"
    /\ Len(sorted_menu_items) = 4

\* C3: logged_in never goes back from true to false.
C3_LoggedInStable == [][logged_in => logged_in']_vars

\* still authenticated after a management command failed
C3_Witness ==
    /\ logged_in /\ pc = "menu" /\ calls # <<>>
    /\ ~IsLogin(Last(calls)) /\ Last(calls).outcome = "nonzero"

\* C4: the retry loop is left only towards the menu, either after a successful
\* attempt with logged_in true or after a failed attempt and a declined
\* confirmation with logged_in false (a user interrupt aside).
C4_RetryEndsTwoWays ==
    [][(pc = "login_retry" /\ pc' # "login_retry" /\ exit_via' # "interrupt") =>
         /\ pc' = "menu"
         /\ \/ Last(calls').outcome = "ok" /\ logged_in'
            \/ /\ Last(calls').outcome = "nonzero"
               /\ Last(prompts') = "Login failed. Try again?"
               /\ ~logged_in']_vars

\* C5: answering the menu prompt with the ordinal printed for "Exit" ends the
\* loop at once: the process ends normally with no command invoked and nothing
\* logged in that iteration, and nothing happens after the process has ended.
C5_ExitEndsLoop ==
    /\ [][(pc = "choose" /\ prompts' # prompts /\ Last(console) = choice' \o ": Exit") =>
            /\ pc' = "exited"
            /\ exit_via' = "break"
            /\ exit_status' = 0
            /\ calls' = <<>>
            /\ log' = <<>>]_vars
    /\ [][pc = "exited" => UNCHANGED vars]_vars

\* Exit chosen from the authenticated menu
C5_Witness ==
    /\ pc = "exited" /\ exit_via = "break" /\ logged_in /\ choice = "11"

\* the batch printed its abort message in the operation in progress
Aborted == "Batch creation aborted by user." \in Range(console)

\* e.stderr.strip() for the error texts of the model
StrippedText(raw) ==
    CASE raw = <<"e">> -> "e"
      [] raw = <<" ", "f", "\n">> -> "f"

\* C6: after the user declined to continue at a failed item i, creation
\* commands have been invoked for the items up to i only and no more are
\* invoked; the two lists hold one entry per attempted item, the last failed
\* entry being item i with its stripped error text, and a later item's name
\* that is not also an earlier item's name is in neither list.
C6_DeclineStopsBatch ==
    /\ [](Aborted =>
            LET i == Len(calls) IN
            /\ i \in 1..Len(app_names)
            /\ \A k \in 1..i : IsCreate(calls[k]) /\ calls[k].cmd[4] = app_names[k]
            /\ calls[i].outcome = "nonzero"
            /\ Len(successful_apps) + Len(failed_apps) = i
            /\ Len(failed_apps) = Cardinality({k \in 1..i : calls[k].outcome = "nonzero"})
            /\ Last(failed_apps) = <<app_names[i], StrippedText(calls[i].stderr)>>
            /\ \A k \in (i + 1)..Len(app_names) :
                 (\A j \in 1..i : app_names[j] # app_names[k]) =>
                    /\ app_names[k] \notin Range(successful_apps)
                    /\ \A f \in Range(failed_apps) : f[1] # app_names[k])
    /\ [][(Aborted /\ Aborted') => calls' = calls]_vars

\* a succeeded, b failed, the user declined, a third item was left
C6_Witness ==
    /\ Aborted /\ pc = "menu" /\ Len(app_names) = 3 /\ Len(calls) = 2
    /\ successful_apps = <<"a">> /\ failed_apps = <<<<"b", "f">>>>

\* the for loop has ended and every invocation of the batch succeeded
AllSucceeded ==
    /\ pc = "batch_summary"
    /\ \A k \in 1..Len(calls) : calls[k].outcome = "ok"

\* C7: when the loop of the batch ends with every creation command having
\* succeeded, one command was invoked per name in input order, each with
\* --path <name>/overlay/<environment>, the succeeded list is the input list
\* and the failed list is empty.
C7_AllSucceed ==
    AllSucceeded =>
        /\ Len(calls) = Len(app_names)
        /\ \A k \in 1..Len(calls) :
             /\ IsCreate(calls[k])
             /\ calls[k].cmd[4] = app_names[k]
             /\ calls[k].cmd[9] = "--path"
             /\ calls[k].cmd[10] = app_names[k] \o "/overlay/" \o environment
        /\ successful_apps = app_names
        /\ failed_apps = <<>>

\* names ["a","b"] in environment "prod", both created
C7_Witness ==
    /\ AllSucceeded /\ app_names = <<"a", "b">> /\ environment = "prod"
    /\ calls[2].cmd[10] = "b/overlay/prod"

\* the names of the attempted items whose invocation had the outcome, in input order
RECURSIVE NamesWhere(_, _)
NamesWhere(k, outcome) ==
    IF k > Len(calls) THEN <<>>
    ELSE (IF calls[k].outcome = outcome THEN <<app_names[k]>> ELSE <<>>)
         \o NamesWhere(k + 1, outcome)

SummaryShown == pc = "menu" /\ "Batch Creation Summary" \in Range(console)

\* C8: the rows of the printed summary are the succeeded names in input
\* order, marked Success, followed by the failed names in input order, marked
\* Failed.
C8_SummaryOrder ==
    SummaryShown =>
        LET ok == NamesWhere(1, "ok")
            ko == NamesWhere(1, "nonzero")
        IN
        /\ Len(table) = Len(ok) + Len(ko)
        /\ \A i \in 1..Len(table) :
             IF i <= Len(ok)
             THEN table[i][1] = ok[i] /\ table[i][2] = "Success"
             ELSE table[i][1] = ko[i - Len(ok)] /\ table[i][2] = "Failed"
        /\ \A i, j \in 1..Len(table) :
             (i < j /\ table[i][2] = "Failed") => table[j][2] = "Failed"

\* the first item failed, the user went on, the second succeeded
C8_Witness ==
    /\ SummaryShown /\ Len(calls) = 2
    /\ calls[1].outcome = "nonzero" /\ calls[2].outcome = "ok"
    /\ Len(table) = 2

\* C9: after an invocation from the menu loop found no executable, the
\* process has not ended through the top-level fault handler: main() is back
\* at the menu (or was interrupted there by the user).
C9_MissingToolReturnsToMenu ==
    (rendered /\ calls # <<>> /\ Last(calls).outcome = "notfound") =>
        /\ exit_via # "unexpected_fault"
        /\ exit_status \in {-1, 0}

\* C10: the first menu is rendered after exactly one login attempt, and a
\* startup attempt that found no `argocd` ends the process with a non-zero
\* status, no menu rendered then or later.
C10_StartupLogin ==
    /\ []((pc = "startup") => (~rendered /\ calls = <<>>))
    /\ []((pc = "menu" /\ ~rendered) => (Len(calls) = 1 /\ IsLogin(calls[1])))
    /\ []((~rendered /\ calls # <<>> /\ calls[1].outcome = "notfound") =>
            (pc = "exited" /\ exit_status \notin {-1, 0}))
    /\ [][(pc = "exited") => (rendered' = rendered)]_vars

\* the process ended at startup because `argocd` was missing
C10_Witness ==
    /\ pc = "exited" /\ ~rendered /\ exit_via = "sys.exit" /\ exit_status = 1
    /\ Len(calls) = 1 /\ calls[1].outcome = "notfound"

-----------------------------------------------------------------------------
(* Failures, interrupts and the startup credentials *)

\* the invocations a step adds to the operation in progress
NewCalls == SubSeq(calls', Len(calls) + 1, Len(calls'))

Failed(call) == call.outcome = "nonzero"

\* `kubectl create namespace` answered non-zero with "already exists"
AlreadyExists(call) ==
    /\ Failed(call)
    /\ SubSeq(call.cmd, 1, 3) = <<"kubectl", "create", "namespace">>
    /\ call.stderr = <<"namespaces", "already", "exists">>

ContinueQuestion == "An error occurred. Continue with the next application?"
TryAgainQuestion == "Login failed. Try again?"

\* the step reports a failure, runs nothing after the failed command, keeps
\* the process alive and either is back at the menu or has asked the user
FailureHandled ==
    /\ pc' # "exited" /\ exit_via' = "running"
    /\ Len(log') > Len(log) /\ Last(log').level = "error"
    /\ Len(console') > Len(console)
    /\ Failed(Last(calls'))
    /\ \/ pc' = "menu"
       \/ /\ pc = "batch_loop" /\ pc' \in {"batch_loop", "batch_summary"}
          /\ Last(prompts') = ContinueQuestion
       \/ /\ pc = "login_retry" /\ pc' = "login_retry"
          /\ Last(prompts') = TryAgainQuestion

\* C11 as stated: every step in which a wrapped tool returns non-zero keeps
\* the process running, reports the failure and ends the operation there (or
\* asks the user), on the way back to the menu.
C11_NonZeroEndsOperation ==
    [][(\E i \in DOMAIN NewCalls : Failed(NewCalls[i])) => FailureHandled]_vars

\* C11, amended: the same for every non-zero exit but one.  A non-zero
\* `kubectl create namespace` of install_argocd whose stderr contains
\* "already exists" is no failure: nothing is reported as an error for it and
\* the installation goes on to `kubectl apply` in the same operation.
C11_NonZeroHandled ==
    [][/\ (\E i \in DOMAIN NewCalls : Failed(NewCalls[i]) /\ ~AlreadyExists(NewCalls[i]))
            => FailureHandled
       /\ \A i \in DOMAIN NewCalls :
            AlreadyExists(NewCalls[i]) =>
                /\ pc = "install_argocd" /\ i = 1 /\ Len(NewCalls) = 2
                /\ SubSeq(NewCalls[2].cmd, 1, 2) = <<"kubectl", "apply">>
                /\ pc' = "menu" /\ exit_via' = "running"]_vars

\* the namespace existed, the apply then failed, and the menu is next
C11_Witness ==
    /\ pc = "menu" /\ exit_via = "running"
    /\ Len(calls) = 2 /\ AlreadyExists(calls[1]) /\ Failed(calls[2])
    /\ Last(log).level = "error"

\* C12: a user interrupt, at the startup login or later, ends the process
\* with the interrupt message and exit status 0, never as an uncaught
\* exception.  (A step that ends the process without invoking a command and
\* without the Exit choice is the interrupt.)
C12_InterruptGraceful ==
    [][(pc # "exited" /\ pc' = "exited" /\ calls' = calls /\ exit_via' # "break") =>
          /\ exit_via' = "interrupt" /\ exit_status' = 0
          /\ Last(console') = "Interrupted by user. Exiting gracefully."]_vars

\* the question that asks for the field an environment variable supplies
QuestionFor ==
    [ARGO_HOST |-> "Enter ArgoCD host",
     ARGO_PORT |-> "Enter ArgoCD port",
     ARGO_USERNAME |-> "Enter ArgoCD username",
     ARGO_PASSWORD |-> "Enter ArgoCD password",
     ARGO_INSECURE_SKIP_VERIFY |-> "Skip TLS certificate verification (insecure)?"]

Supplied(read) == read.value \notin {None, ""}

\* the startup login has run its command and no menu was rendered since
StartupLoginDone == ~rendered /\ Len(env_read) = 5 /\ Len(calls) = 1

\* C13: in the startup login each of host, port, username, password and
\* insecure flag that the environment does not supply is asked for at a
\* prompt; none is filled silently.
C13_MissingFieldsPrompted ==
    StartupLoginDone =>
        \A i \in DOMAIN env_read :
            ~Supplied(env_read[i]) => QuestionFor[env_read[i].var] \in Range(prompts)

\* what a prompt for the host or the port may give: the typed text or the default
HostsAsked == {"typed", "localhost"}
PortsAsked == {"typed", "8080"}

\* the values of the variable that make the login insecure (line 36)
InsecureWords == {"true", "True", "1", "YES"}

\* C14: in the startup login a field the environment supplies (non-empty) is
\* not asked for, and the supplied value is the one in the login command:
\* host and port in the server address, username and password after their
\* options, the insecure flag as the presence of --insecure.
C14_SuppliedFieldsUsed ==
    StartupLoginDone =>
        LET cmd == calls[1].cmd
            host == env_read[1]
            port == env_read[2]
        IN
        /\ \A i \in DOMAIN env_read :
             Supplied(env_read[i]) => QuestionFor[env_read[i].var] \notin Range(prompts)
        /\ \E h \in HostsAsked \cup {host.value}, p \in PortsAsked \cup {port.value} :
             /\ cmd[3] = h \o ":" \o p
             /\ Supplied(host) => h = host.value
             /\ Supplied(port) => p = port.value
        /\ Supplied(env_read[3]) => cmd[4] = "--username" /\ cmd[5] = env_read[3].value
        /\ Supplied(env_read[4]) => cmd[6] = "--password" /\ cmd[7] = env_read[4].value
        /\ Supplied(env_read[5]) =>
             ("--insecure" \in Range(cmd) <=> env_read[5].value \in InsecureWords)

\* host and password came from the environment, port and username were typed
C14_Witness ==
    /\ StartupLoginDone
    /\ Supplied(env_read[1]) /\ ~Supplied(env_read[2])
    /\ ~Supplied(env_read[3]) /\ Supplied(env_read[4])
    /\ prompts = <<"Enter ArgoCD port", "Enter ArgoCD username">>
    /\ calls[1].cmd = <<"argocd", "login", "env:typed", "--username", "typed",
                        "--password", "env", "--insecure">>

-----------------------------------------------------------------------------
(* The menu: choices and rendering *)

Ordinals == <<"1", "2", "3", "4", "5", "6", "7", "8", "9", "10", "11", "12">>
OrdinalsTo(n) == {Ordinals[i] : i \in 1..n}

\* N of the claim: the actions of the session state, and Exit
ChoiceCount(li) ==
    IF li THEN Cardinality(SetupLabels) + Cardinality(ManagementLabels) + 1
    ELSE Cardinality(SetupLabels) + 1 + 1

ValidLabels(li) ==
    IF li THEN SetupLabels \cup ManagementLabels ELSE SetupLabels \cup {RetryLabel}

\* C15: at every menu prompt the accepted choices are exactly the ordinals
\* 1..N of the menu rendered in that iteration for the session state of that
\* iteration (N = setup + management + 1 when authenticated, setup + 1 + 1
\* otherwise), and a choice other than N is dispatched to the action that the
\* rendered menu shows under that ordinal, which is an action of that state.
C15_ChoicesMatchMenu ==
    /\ [](pc = "choose" =>
            /\ valid_choices = OrdinalsTo(ChoiceCount(logged_in))
            /\ Len(console) = ChoiceCount(logged_in) + 1)
    /\ [][(pc = "choose" /\ prompts' # prompts) =>
            \E i \in 1..ChoiceCount(logged_in) :
                /\ choice' = Ordinals[i]
                /\ IF i = ChoiceCount(logged_in)
                   THEN pc' = "exited" /\ exit_via' = "break"
                   ELSE \E label \in ValidLabels(logged_in) :
                          /\ console[i + 1] = Ordinals[i] \o ": " \o label
                          /\ pc' = current_menu_text[label]
                          /\ exit_via' = "running"]_vars

\* the menu prompt of the iteration right after a retry login succeeded
C15_Witness ==
    /\ pc = "choose" /\ logged_in /\ attempts > 0
    /\ valid_choices = OrdinalsTo(11)

\* the labels of each session state in ascending order of code points
\* ("Exit" itself would sort between "Delete Application" and "Install ArgoCD")
LabelsInOrder(li) ==
    IF li THEN <<"Add Credential Template", "Add Repository",
                 "Check ArgoCD Installation Status", "Create Application",
                 "Create Application Batch", "Delete Application", "Install ArgoCD",
                 "List Applications", "List Repositories", "Uninstall ArgoCD">>
    ELSE <<"Check ArgoCD Installation Status", "Install ArgoCD", "Login to ArgoCD",
           "Uninstall ArgoCD">>

\* C16: in both session states the menu on the screen lists exactly the labels
\* of the valid actions in ascending lexicographic order, numbered from 1, and
\* "Exit" comes after all of them with the highest ordinal.
C16_MenuSortedExitLast ==
    pc = "choose" =>
        LET labels == LabelsInOrder(logged_in)
            n == Len(labels)
        IN
        /\ Range(labels) = ValidLabels(logged_in)
        /\ Len(console) = n + 2
        /\ console[1] = "Main Menu"
        /\ \A i \in 1..n : console[i + 1] = Ordinals[i] \o ": " \o labels[i]
        /\ console[n + 2] = Ordinals[n + 1] \o ": Exit"

\* the menu of an authenticated session is on the screen
C16_Witness ==
    /\ pc = "choose" /\ logged_in
    /\ console[5] = "4: Create Application" /\ console[6] = "5: Create Application Batch"
    /\ Last(console) = "11: Exit"

-----------------------------------------------------------------------------
(* Retries *)

\* two invocations of the same subcommand of the same tool
SameCommand(c, d) == SubSeq(c.cmd, 1, 2) = SubSeq(d.cmd, 1, 2)

AffirmativeAnswers(question) ==
    Cardinality({i \in DOMAIN confirms : confirms[i] = Answer(question, TRUE)})

\* the retry-login loop is running or has just ended
InRetryLogin == attempts > 0

\* C17: nothing is invoked again on the program's own initiative.  A command
\* whose earlier invocation in the same operation failed runs again only when
\* the user's latest confirmation was affirmative; the retry-login loop makes
\* 1 + (affirmative try-again answers) attempts; and once an operation is
\* over, commands run again only after a new selection at the menu.
C17_NoAutomaticRetry ==
    /\ [][\A j \in (Len(calls) + 1)..Len(calls') : \A i \in 1..(j - 1) :
            (Failed(calls'[i]) /\ SameCommand(calls'[i], calls'[j])) =>
                /\ i <= Len(calls)
                /\ confirms # <<>> /\ Last(confirms).a
                /\ Last(confirms).q \in {TryAgainQuestion, ContinueQuestion}]_vars
    /\ [](InRetryLogin =>
            /\ \A i \in DOMAIN calls : IsLogin(calls[i])
            /\ Len(calls) <= 1 + AffirmativeAnswers(TryAgainQuestion)
            /\ (pc = "menu") => (Len(calls) = 1 + AffirmativeAnswers(TryAgainQuestion)))
    /\ [][(pc \in {"menu", "choose", "exited"}) => (Len(calls') <= Len(calls))]_vars

\* the retry loop ended after a second attempt that the user asked for
C17_Witness ==
    /\ pc = "menu" /\ InRetryLogin
    /\ Len(calls) = 2 /\ Failed(calls[1])
    /\ AffirmativeAnswers(TryAgainQuestion) = 1

-----------------------------------------------------------------------------
(* The list handlers *)

IsList(call) == call.cmd[1] = "argocd" /\ call.cmd[3] = "list"

ParseErrorLine == "Error: Could not parse the data received from the ArgoCD CLI."
ParseErrorLogged ==
    \E i \in DOMAIN log : log[i] = Error("Failed to parse JSON from argocd CLI output.", "")
NoneFoundLines == {"No repositories found.", "No applications found."}
NoneFoundLine(call) ==
    IF call.cmd[2] = "repo" THEN "No repositories found." ELSE "No applications found."
TableShown == "<table>" \in Range(console)

\* a list command of the operation that just ran succeeded
ListSucceeded == calls # <<>> /\ IsList(Last(calls)) /\ Last(calls).outcome = "ok"

\* C18: after a list command succeeded the outcomes are three and distinct.
\* Output that is not JSON: the parse-error message, no table.  An empty JSON
\* array: the "No ... found." message, no table, no parse error.  A non-empty
\* array: a table with one row per record.  Each time the handler is back at
\* the menu (the process ends only if the user interrupts it there).
C18_ListOutcomes ==
    ListSucceeded =>
        LET stdout == Last(calls).stdout
            none_line == NoneFoundLine(Last(calls))
        IN
        /\ pc = "menu" \/ (pc = "exited" /\ exit_via = "interrupt")
        /\ Len(calls) = 1
        /\ ~stdout.json =>
             /\ ParseErrorLine \in Range(console) /\ ParseErrorLogged
             /\ ~TableShown /\ table = <<>>
             /\ Range(console) \cap NoneFoundLines = {}
        /\ (stdout.json /\ stdout.value = <<>>) =>
             /\ none_line \in Range(console)
             /\ ~TableShown /\ table = <<>>
             /\ ParseErrorLine \notin Range(console) /\ ~ParseErrorLogged
        /\ (stdout.json /\ stdout.value # <<>>) =>
             /\ TableShown /\ Len(table) = Len(stdout.value)
             /\ Range(console) \cap NoneFoundLines = {}
             /\ ParseErrorLine \notin Range(console) /\ ~ParseErrorLogged

\* `argocd repo list` printed an empty array and the handler is back at the menu
C18_Witness ==
    /\ ListSucceeded /\ pc = "menu"
    /\ Last(calls).stdout = Array(<<>>)
    /\ Last(console) = "No repositories found."

Absent == "<absent>"

\* the value at a path of keys in a record, or Absent when a key is missing
RECURSIVE Dig(_, _)
Dig(rec, path) ==
    IF path = <<>> THEN rec
    ELSE IF Head(path) \in DOMAIN rec THEN Dig(rec[Head(path)], Tail(path))
    ELSE Absent

\* the fields a row projects, column by column
RepoColumns ==
    <<<<"repo">>, <<"name">>, <<"status">>, <<"connectionState", "status">>, <<"project">>>>
AppColumns ==
    <<<<"metadata", "name">>, <<"spec", "project">>, <<"spec", "destination", "server">>,
      <<"spec", "destination", "namespace">>, <<"status", "sync", "status">>,
      <<"status", "health", "status">>>>

ColumnsOf(call) == IF call.cmd[2] = "repo" THEN RepoColumns ELSE AppColumns

\* C19: in the table of either list handler a record's row has one cell per
\* projected field; the cell of a field that is absent, at the top level or
\* inside a nested object, is the empty string, a present field is shown as
\* it is, and the handler ends at the menu without a fault.
C19_AbsentFieldsEmpty ==
    (ListSucceeded /\ Last(calls).stdout.json /\ Last(calls).stdout.value # <<>>) =>
        LET records == Last(calls).stdout.value
            columns == ColumnsOf(Last(calls))
        IN
        /\ exit_via # "unexpected_fault"
        /\ DOMAIN table = DOMAIN records
        /\ \A i \in DOMAIN records :
             /\ DOMAIN table[i] = DOMAIN columns
             /\ \A k \in DOMAIN columns :
                  table[i][k] = IF Dig(records[i], columns[k]) = Absent THEN ""
                                ELSE Dig(records[i], columns[k])

\* an application with no metadata, no project, no namespace and no status
\* values was listed: only the server cell is filled
C19_Witness ==
    /\ ListSucceeded /\ pc = "menu"
    /\ Last(calls).stdout = Array(<<AppPartial>>)
    /\ table = <<<<"", "", "srv", "", "", "">>>>

-----------------------------------------------------------------------------
(* The log *)

Entries(level) == {j \in DOMAIN log : log[j].level = level}
Invocations(outcomes) == {i \in DOMAIN calls : calls[i].outcome \in outcomes}

\* C20: every invocation of an external command leaves an entry in the log:
\* an info entry when it succeeded, an error entry with the diagnostic text
\* when it failed.  (Counted over the operation in progress: at least one
\* entry per invocation, one info entry per success, one error entry per
\* failure, and no error entry without its text; a list command whose output
\* could not be parsed counts as logged by its parse-error entry.)
C20_EveryInvocationLogged ==
    /\ Len(log) >= Len(calls)
    /\ Cardinality(Entries("info")) + (IF ParseErrorLogged THEN 1 ELSE 0)
         >= Cardinality(Invocations({"ok"}))
    /\ Cardinality(Entries("error")) >= Cardinality(Invocations({"nonzero", "notfound"}))
    /\ \A j \in Entries("error") : log[j].text # None

-----------------------------------------------------------------------------
(* The batch, item by item *)

\* the for loop of create_application_batch has started
InBatch == app_names # <<>>

Distinct(seq) == \A i, j \in DOMAIN seq : i # j => seq[i] # seq[j]

\* the names whose creation command has been invoked, in order
Attempted == [i \in DOMAIN calls |-> calls[i].cmd[4]]

\* the invocation either exited, with zero or non-zero status
Returned(call) == call.outcome \in {"ok", "nonzero"}

FailedNames == {failed_apps[i][1] : i \in DOMAIN failed_apps}

\* C21: at every point of a batch over distinct names the names attempted so
\* far are a prefix of the input list, one creation command was invoked per
\* attempted name, each attempted name whose command returned is in exactly
\* one of the succeeded and failed lists (succeeded iff it exited with zero),
\* and the two lists are disjoint and hold no unattempted name.
C21_BatchPrefix ==
    (InBatch /\ Distinct(app_names)) =>
        /\ \A i \in DOMAIN calls : IsCreate(calls[i])
        /\ Len(calls) <= Len(app_names)
        /\ Attempted = SubSeq(app_names, 1, Len(calls))
        /\ \A i \in DOMAIN calls :
             Returned(calls[i]) =>
                /\ Attempted[i] \in Range(successful_apps) <=> calls[i].outcome = "ok"
                /\ Attempted[i] \in FailedNames <=> calls[i].outcome = "nonzero"
        /\ Range(successful_apps) \cap FailedNames = {}
        /\ Range(successful_apps) \cup FailedNames \subseteq Range(Attempted)
        /\ Distinct(successful_apps) /\ Distinct(failed_apps)
        /\ Len(successful_apps) + Len(failed_apps)
             = Cardinality({i \in DOMAIN calls : Returned(calls[i])})

\* two distinct names: the first failed, the user went on, the second succeeded
C21_Witness ==
    /\ InBatch /\ Distinct(app_names) /\ Len(app_names) = 2
    /\ Len(calls) = 2 /\ Failed(calls[1]) /\ calls[2].outcome = "ok"
    /\ successful_apps = <<app_names[2]>> /\ FailedNames = {app_names[1]}

-----------------------------------------------------------------------------
(* Destructive commands and the installation *)

IsAppDelete(call) == SubSeq(call.cmd, 1, 3) = <<"argocd", "app", "delete">>
IsManifestDelete(call) == SubSeq(call.cmd, 1, 3) = <<"kubectl", "delete", "-n">>
IsNamespaceDelete(call) == SubSeq(call.cmd, 1, 3) = <<"kubectl", "delete", "namespace">>

DeleteAppQuestion == "Are you sure you want to delete the application?"
UninstallQuestion == "Are you sure you want to proceed with uninstalling ArgoCD?"
DeleteNamespaceQuestion == "Do you also want to delete the entire namespace?"

Answered(question, yes) == Answer(question, yes) \in Range(confirms)

\* the handler is over and main() is at the menu (or was interrupted there)
BackAtMenu == pc = "menu" \/ (pc = "exited" /\ exit_via = "interrupt")

\* C22: no destructive command without an affirmative confirmation in the
\* same action.  `argocd app delete` runs only for a non-empty name and a
\* confirmed prompt; the manifest delete only after the first confirmation;
\* `kubectl delete namespace` only right after a manifest delete that
\* succeeded and a second confirmation; after a decline (or an empty name)
\* nothing more is invoked and the menu is next.
C22_DestructiveConfirmed ==
    /\ \A i \in DOMAIN calls :
         /\ IsAppDelete(calls[i]) =>
              /\ calls[i].cmd[4] # ""
              /\ confirms = <<Answer(DeleteAppQuestion, TRUE)>>
         /\ IsManifestDelete(calls[i]) =>
              /\ i = 1
              /\ confirms # <<>> /\ confirms[1] = Answer(UninstallQuestion, TRUE)
         /\ IsNamespaceDelete(calls[i]) =>
              /\ i = 2 /\ IsManifestDelete(calls[1]) /\ calls[1].outcome = "ok"
              /\ confirms = <<Answer(UninstallQuestion, TRUE),
                              Answer(DeleteNamespaceQuestion, TRUE)>>
    /\ (Answered(DeleteAppQuestion, FALSE) \/ Answered(UninstallQuestion, FALSE)) =>
         (calls = <<>> /\ BackAtMenu)
    /\ Answered(DeleteNamespaceQuestion, FALSE) =>
         (Len(calls) = 1 /\ IsManifestDelete(calls[1]) /\ BackAtMenu)
    /\ "No application name entered. Aborting." \in Range(console) =>
         (calls = <<>> /\ confirms = <<>> /\ BackAtMenu)

\* the resources were deleted, the user declined to delete the namespace
C22_Witness ==
    /\ pc = "menu"
    /\ confirms = <<Answer(UninstallQuestion, TRUE), Answer(DeleteNamespaceQuestion, FALSE)>>
    /\ Len(calls) = 1 /\ IsManifestDelete(calls[1]) /\ calls[1].outcome = "ok"

IsCreateNamespace(call) == SubSeq(call.cmd, 1, 3) = <<"kubectl", "create", "namespace">>
IsApply(call) == SubSeq(call.cmd, 1, 2) = <<"kubectl", "apply">>

InstalledLine == "ArgoCD installation manifest applied successfully"

\* C23: in install_argocd `kubectl apply` is invoked only after `kubectl
\* create namespace` succeeded or failed with "already exists" in its error
\* text; after any other failure of it the installation stops there, without
\* the apply; and the success message is shown only after the apply succeeded.
C23_ApplyAfterNamespace ==
    /\ \A i \in DOMAIN calls :
         IsApply(calls[i]) =>
            /\ i = 2 /\ IsCreateNamespace(calls[1])
            /\ calls[1].outcome = "ok" \/ AlreadyExists(calls[1])
    /\ (calls # <<>> /\ IsCreateNamespace(calls[1])
        /\ calls[1].outcome # "ok" /\ ~AlreadyExists(calls[1])) =>
         /\ Len(calls) = 1 /\ BackAtMenu
         /\ InstalledLine \notin Range(console)
         /\ Last(log).level = "error"
    /\ InstalledLine \in Range(console) =>
         (Len(calls) = 2 /\ IsApply(calls[2]) /\ calls[2].outcome = "ok")

\* the namespace existed already and the manifest was applied
C23_Witness ==
    /\ pc = "menu" /\ Len(calls) = 2
    /\ AlreadyExists(calls[1]) /\ IsApply(calls[2]) /\ calls[2].outcome = "ok"
    /\ Last(console) = InstalledLine

====
